---- MODULE Spec2Model ----
(***************************************************************************)
(* permessage-deflate (RFC 7692) of tungstenite-rs:                        *)
(*   - the negotiation functions of src/extensions/deflate/mod.rs          *)
(*     (DeflateConfig::accept_offer, DeflateContext::new), and             *)
(*   - the codec of DeflateContext (compress / decompress) driving the     *)
(*     flate2 raw-deflate streams through growable Vec<u8> buffers.        *)
(***************************************************************************)
EXTENDS Integers, Sequences, FiniteSets, TLC

VARIABLES
    op,          \* negotiation: the function applied last ("none" before any)
    in_config,   \* negotiation: the DeflateConfig it was applied to
    in_ext,      \* negotiation: the WebSocketExtension (offer or response) given
    result,      \* negotiation: what it returned
    backend,     \* codec: the deflate implementation the flate2 crate is built on
    ctx,         \* codec: the DeflateContext {config, compressor, decompressor}
    pc,          \* codec: where the message in transit is
    sent,        \* codec: payload given to the last compress
    wire,        \* codec: the bytes the last compress returned
    rcvd,        \* codec: how many bytes of wire were given to decompress
    nfrags,      \* codec: non-final fragments of the message given to decompress
    got,         \* codec: bytes returned by decompress for the message in transit
    dec0,        \* codec: the decompressor as it was when the message was compressed
    nmsgs,       \* codec: messages compressed so far
    hs,          \* handshake: the client's and the server's config, the offer, the
                 \*            response and what the client resolved
    ext,         \* Extensions: the method applied last, self.deflate, the list of
                 \*             extensions it was given and what it returned
    conn         \* connection: the contexts of the client and of the server after
                 \*             the handshake, and the message in transit

negVars == <<op, in_config, in_ext, result>>
codecVars == <<backend, ctx, pc, sent, wire, rcvd, nfrags, got, dec0, nmsgs>>
extVars == <<hs, ext, conn>>
vars ==
    <<op, in_config, in_ext, result,
      backend, ctx, pc, sent, wire, rcvd, nfrags, got, dec0, nmsgs, hs, ext, conn>>

(***************************************************************************)
(* Option<T>: None is the empty sequence, Some(v) the one-element sequence. *)
(***************************************************************************)
None == <<>>
Some(v) == <<v>>
IsSome(o) == Len(o) = 1
Unwrap(o) == o[1]

(***************************************************************************)
(* Names (deflate/mod.rs 10-20).                                           *)
(***************************************************************************)
PERMESSAGE_DEFLATE_NAME == "permessage-deflate"
PARAM_CLIENT_MAX_WINDOW_BITS == "client_max_window_bits"
PARAM_CLIENT_NO_CONTEXT_TAKEOVER == "client_no_context_takeover"
PARAM_SERVER_MAX_WINDOW_BITS == "server_max_window_bits"
PARAM_SERVER_NO_CONTEXT_TAKEOVER == "server_no_context_takeover"
TRAILER == <<0, 0, 255, 255>>

(***************************************************************************)
(* Bounds of the model.                                                    *)
(***************************************************************************)
\* longest parameter list of an offer or a response
MaxParams == 3
\* longest run of one byte value given to compress as a payload
MaxLen == 3
\* most copies of TRAILER at the head of a payload
MaxTrailers == 2
\* messages compressed on one context
MaxMsgs == 2
\* non-final fragments one message is split into before its final fragment
MaxFrags == 2

(***************************************************************************)
(* DeflateConfig.  compression is the flate2 level: 0 stores, 1..9          *)
(* compress (6 is Compression::default()).                                 *)
(***************************************************************************)
Levels == {0, 6}

DeflateConfig(level, request, accept) ==
    [compression |-> level,
     request_no_context_takeover |-> request,
     accept_no_context_takeover |-> accept]

DeflateConfig_default == DeflateConfig(6, FALSE, FALSE)

Configs ==
    {DeflateConfig(l, r, a) : l \in Levels, r \in BOOLEAN, a \in BOOLEAN}

(***************************************************************************)
(* WebSocketExtension: a name and an ordered list of (key, Option value).  *)
(***************************************************************************)
WebSocketExtension(name, params) == [name |-> name, params |-> params]

Keys(params) == {params[i][1] : i \in 1..Len(params)}
Count(params, key) == Cardinality({i \in 1..Len(params) : params[i][1] = key})

\* mutant: the value is parsed as a number, so a sign or a leading zero passes
is_valid_max_window_bits_Parsed(bits) ==
    bits \in {"8", "9", "10", "11", "12", "13", "14", "15", "08", "+8", "015"}

\* is_valid_max_window_bits: exactly the decimal strings "8".."15"
is_valid_max_window_bits(bits) ==
    bits \in {"8", "9", "10", "11", "12", "13", "14", "15"}

(***************************************************************************)
(* flate2 streams as DeflateContext creates them (the codec itself is      *)
(* further down).                                                          *)
(***************************************************************************)
\* Compress::new(level, false): a raw deflate stream with nothing buffered
Compress_new(level) ==
    [level |-> level, window |-> <<>>, lookahead |-> <<>>, pending |-> <<>>,
     last_flush |-> "Fresh", total_in |-> 0]

\* Decompress::new(false): a raw inflate stream waiting for a block header
Decompress_new ==
    [mode |-> "HEAD", last |-> FALSE, len |-> 0, aux |-> 0, window |-> <<>>,
     total_in |-> 0]

\* impl From<DeflateConfig> for DeflateContext
DeflateContext_from(val) ==
    [config |-> val,
     compressor |-> Compress_new(val.compression),
     decompressor |-> Decompress_new]

(***************************************************************************)
(* DeflateConfig::accept_offer (the responder).  The loop state holds the  *)
(* locals of the function; declined is the early `return None`.            *)
(***************************************************************************)
AcceptLocals ==
    [params |-> <<>>,
     config |-> DeflateConfig_default,
     seen_server_no_context_takeover |-> FALSE,
     seen_client_no_context_takeover |-> FALSE,
     seen_client_max_window_bits |-> FALSE,
     declined |-> FALSE]

Decline(st) == [st EXCEPT !.declined = TRUE]


\* mutant: the second server_no_context_takeover is not noticed
AcceptServerNoContextTakeover_NoDuplicateCheck(st, val) ==
    [st EXCEPT !.seen_server_no_context_takeover = TRUE,
               !.config.request_no_context_takeover = TRUE,
               !.params = IF st.seen_server_no_context_takeover
                          THEN @
                          ELSE Append(@, <<PARAM_SERVER_NO_CONTEXT_TAKEOVER, None>>)]

\* mutant: server_no_context_takeover is agreed to without being echoed
AcceptServerNoContextTakeover_NotEchoed(st, val) ==
    IF st.seen_server_no_context_takeover
    THEN Decline(st)
    ELSE [st EXCEPT !.seen_server_no_context_takeover = TRUE,
                    !.config.request_no_context_takeover = TRUE]

AcceptServerNoContextTakeover(st, val) ==
    IF st.seen_server_no_context_takeover
    THEN Decline(st)
    ELSE [st EXCEPT !.seen_server_no_context_takeover = TRUE,
                    !.config.request_no_context_takeover = TRUE,
                    !.params = Append(@, <<PARAM_SERVER_NO_CONTEXT_TAKEOVER, None>>)]

\* mutant: a repeated client_no_context_takeover is echoed again
AcceptClientNoContextTakeover_Repeated(st, val) ==
    [st EXCEPT !.seen_client_no_context_takeover = TRUE,
               !.config.accept_no_context_takeover = TRUE,
               !.params = Append(@, <<PARAM_CLIENT_NO_CONTEXT_TAKEOVER, None>>)]

AcceptClientNoContextTakeover(st, val) ==
    IF st.seen_client_no_context_takeover
    THEN Decline(st)
    ELSE [st EXCEPT !.seen_client_no_context_takeover = TRUE,
                    !.config.accept_no_context_takeover = TRUE,
                    !.params = Append(@, <<PARAM_CLIENT_NO_CONTEXT_TAKEOVER, None>>)]


\* mutant: a valid server_max_window_bits is ignored like client_max_window_bits
AcceptServerMaxWindowBits_Ignored(st, val) ==
    IF IsSome(val) /\ is_valid_max_window_bits(Unwrap(val)) THEN st ELSE Decline(st)

AcceptServerMaxWindowBits(st, val) ==
    IF IsSome(val)
    THEN IF ~is_valid_max_window_bits(Unwrap(val))
         THEN Decline(st)
         ELSE Decline(st)      \* valid, but the server does not support it
    ELSE Decline(st)


\* mutant: client_max_window_bits is echoed in the response
AcceptClientMaxWindowBits_Echoed(st, val) ==
    IF IsSome(val) /\ ~is_valid_max_window_bits(Unwrap(val))
    THEN Decline(st)
    ELSE IF st.seen_client_max_window_bits
         THEN Decline(st)
         ELSE [st EXCEPT !.seen_client_max_window_bits = TRUE,
                         !.params = Append(@, <<PARAM_CLIENT_MAX_WINDOW_BITS, val>>)]

AcceptClientMaxWindowBits(st, val) ==
    IF IsSome(val) /\ ~is_valid_max_window_bits(Unwrap(val))
    THEN Decline(st)
    ELSE IF st.seen_client_max_window_bits
         THEN Decline(st)
         ELSE [st EXCEPT !.seen_client_max_window_bits = TRUE]


\* mutant: an unknown parameter is skipped
AcceptUnknownParameter_Skipped(st, val) == st

AcceptUnknownParameter(st, val) == Decline(st)

AcceptParam(st, key, val) ==
    CASE key = PARAM_SERVER_NO_CONTEXT_TAKEOVER -> AcceptServerNoContextTakeover(st, val)
      [] key = PARAM_CLIENT_NO_CONTEXT_TAKEOVER -> AcceptClientNoContextTakeover(st, val)
      [] key = PARAM_SERVER_MAX_WINDOW_BITS -> AcceptServerMaxWindowBits(st, val)
      [] key = PARAM_CLIENT_MAX_WINDOW_BITS -> AcceptClientMaxWindowBits(st, val)
      [] OTHER -> AcceptUnknownParameter(st, val)

RECURSIVE AcceptLoop(_, _, _)
AcceptLoop(params, i, st) ==
    IF i > Len(params)
    THEN Some(WebSocketExtension(PERMESSAGE_DEFLATE_NAME, st.params))
    ELSE LET st2 == AcceptParam(st, params[i][1], params[i][2])
         IN  IF st2.declined THEN None ELSE AcceptLoop(params, i + 1, st2)

\* mutant: the responder adds the parameters of its own config to the response
accept_offer_OwnParams(self, offer) ==
    IF offer.name = PERMESSAGE_DEFLATE_NAME
    THEN AcceptLoop(offer.params, 1,
             [AcceptLocals EXCEPT !.params =
                 IF self.request_no_context_takeover
                 THEN <<<<PARAM_CLIENT_NO_CONTEXT_TAKEOVER, None>>>>
                 ELSE <<>>])
    ELSE None

accept_offer(self, offer) ==
    IF offer.name = PERMESSAGE_DEFLATE_NAME
    THEN AcceptLoop(offer.params, 1, AcceptLocals)
    ELSE None

(***************************************************************************)
(* DeflateContext::new (the offerer verifying the response).               *)
(***************************************************************************)
Ok(v) == [ok |-> TRUE, val |-> v]
Err(kind, arg) == [ok |-> FALSE, val |-> [kind |-> kind, arg |-> arg]]

\* mutant: the resolved config starts from DeflateConfig::default() alone
NewLocals_AllDefault(config) ==
    [config |-> DeflateConfig_default,
     seen_server_no_context_takeover |-> FALSE,
     seen_client_no_context_takeover |-> FALSE,
     err |-> None]

NewLocals(config) ==
    [config |-> DeflateConfig(DeflateConfig_default.compression,
                              DeflateConfig_default.request_no_context_takeover,
                              config.accept_no_context_takeover),
     seen_server_no_context_takeover |-> FALSE,
     seen_client_no_context_takeover |-> FALSE,
     err |-> None]

Fail(st, kind, arg) == [st EXCEPT !.err = Some(Err(kind, arg))]


\* mutant: the second server_no_context_takeover is not noticed
NewServerNoContextTakeover_NoDuplicateCheck(st, key, val) ==
    [st EXCEPT !.seen_server_no_context_takeover = TRUE,
               !.config.request_no_context_takeover = TRUE]

NewServerNoContextTakeover(st, key, val) ==
    IF st.seen_server_no_context_takeover
    THEN Fail(st, "DuplicateParameter", Some(key))
    ELSE [st EXCEPT !.seen_server_no_context_takeover = TRUE,
                    !.config.request_no_context_takeover = TRUE]

NewClientNoContextTakeover(st, key, val) ==
    IF st.seen_client_no_context_takeover
    THEN Fail(st, "DuplicateParameter", Some(key))
    ELSE [st EXCEPT !.seen_client_no_context_takeover = TRUE,
                    !.config.accept_no_context_takeover = TRUE]


\* mutant: a bare server_max_window_bits is let through
NewServerMaxWindowBits_BareAllowed(st, key, val) ==
    IF IsSome(val)
    THEN IF ~is_valid_max_window_bits(Unwrap(val))
         THEN Fail(st, "InvalidServerMaxWindowBitsValue", val)
         ELSE Fail(st, "ServerMaxWindowBitsNotSupported", None)
    ELSE st

NewServerMaxWindowBits(st, key, val) ==
    IF IsSome(val)
    THEN IF ~is_valid_max_window_bits(Unwrap(val))
         THEN Fail(st, "InvalidServerMaxWindowBitsValue", val)
         ELSE Fail(st, "ServerMaxWindowBitsNotSupported", None)
    ELSE Fail(st, "MissingServerMaxWindowBitsValue", None)


\* mutant: a client_max_window_bits that is bare or well formed is let through
NewClientMaxWindowBits_WellFormedAllowed(st, key, val) ==
    IF IsSome(val) /\ ~is_valid_max_window_bits(Unwrap(val))
    THEN Fail(st, "InvalidClientMaxWindowBitsValue", val)
    ELSE st

NewClientMaxWindowBits(st, key, val) ==
    IF IsSome(val) /\ ~is_valid_max_window_bits(Unwrap(val))
    THEN Fail(st, "InvalidClientMaxWindowBitsValue", val)
    ELSE Fail(st, "UnexpectedClientMaxWindowBits", None)


\* mutant: an unknown parameter is skipped
NewUnknownParameter_Skipped(st, key, val) == st

NewUnknownParameter(st, key, val) == Fail(st, "UnknownParameter", Some(key))

NewParam(st, key, val) ==
    CASE key = PARAM_SERVER_NO_CONTEXT_TAKEOVER -> NewServerNoContextTakeover(st, key, val)
      [] key = PARAM_CLIENT_NO_CONTEXT_TAKEOVER -> NewClientNoContextTakeover(st, key, val)
      [] key = PARAM_SERVER_MAX_WINDOW_BITS -> NewServerMaxWindowBits(st, key, val)
      [] key = PARAM_CLIENT_MAX_WINDOW_BITS -> NewClientMaxWindowBits(st, key, val)
      [] OTHER -> NewUnknownParameter(st, key, val)

RECURSIVE NewLoop(_, _, _)
NewLoop(params, i, st) ==
    IF i > Len(params)
    THEN Ok(DeflateContext_from(st.config))
    ELSE LET st2 == NewParam(st, params[i][1], params[i][2])
         IN  IF IsSome(st2.err) THEN Unwrap(st2.err) ELSE NewLoop(params, i + 1, st2)

\* mutant: the parameters are evaluated from the last one to the first
DeflateContext_new_Backwards(config, params) ==
    NewLoop([i \in 1..Len(params) |-> params[Len(params) + 1 - i]], 1, NewLocals(config))

DeflateContext_new(config, params) == NewLoop(params, 1, NewLocals(config))

(***************************************************************************)
(* impl From<DeflateConfig> for WebSocketExtension (the offer of a client). *)
(***************************************************************************)
\* mutant: only request_no_context_takeover is turned into a parameter
WebSocketExtension_from_RequestOnly(val) ==
    WebSocketExtension(PERMESSAGE_DEFLATE_NAME,
        IF val.request_no_context_takeover
        THEN <<<<PARAM_SERVER_NO_CONTEXT_TAKEOVER, None>>>>
        ELSE <<>>)

WebSocketExtension_from(val) ==
    WebSocketExtension(PERMESSAGE_DEFLATE_NAME,
        (IF val.request_no_context_takeover
         THEN <<<<PARAM_SERVER_NO_CONTEXT_TAKEOVER, None>>>>
         ELSE <<>>)
        \o (IF val.accept_no_context_takeover
            THEN <<<<PARAM_CLIENT_NO_CONTEXT_TAKEOVER, None>>>>
            ELSE <<>>))


(***************************************************************************)
(* impl From<&HeaderValue> for WebSocketExtensions (the header tokenizer). *)
(* A header value, and every name, key and value parsed from it, is a      *)
(* sequence of one-character strings.                                      *)
(***************************************************************************)
Contains(str, c) == \E i \in 1..Len(str) : str[i] = c
Find(str, c) == CHOOSE i \in 1..Len(str) : str[i] = c /\ \A j \in 1..(i - 1) : str[j] # c

\* str::split(c): the pieces between the occurrences of c, empty ones included
RECURSIVE Split(_, _)
Split(str, c) ==
    IF Contains(str, c)
    THEN <<SubSeq(str, 1, Find(str, c) - 1)>>
         \o Split(SubSeq(str, Find(str, c) + 1, Len(str)), c)
    ELSE <<str>>

\* str::trim
RECURSIVE TrimStart(_)
TrimStart(str) ==
    IF str # <<>> /\ str[1] = " " THEN TrimStart(Tail(str)) ELSE str
RECURSIVE TrimEnd(_)
TrimEnd(str) ==
    IF str # <<>> /\ str[Len(str)] = " "
    THEN TrimEnd(SubSeq(str, 1, Len(str) - 1))
    ELSE str
Trim(str) == TrimEnd(TrimStart(str))

\* Iterator::next on the pieces of a split
Next_(pieces, n) == IF n <= Len(pieces) THEN Some(pieces[n]) ELSE None

\* one parameter: param_with_value.next() twice, or the bare name
ParamWithValue(param_with_value) ==
    <<Trim(Unwrap(Next_(param_with_value, 1))),
      IF IsSome(Next_(param_with_value, 2))
      THEN Some(Trim(Unwrap(Next_(param_with_value, 2))))
      ELSE None>>

HeaderParam(value) ==
    IF Contains(value, "=")
    THEN ParamWithValue(Split(value, "="))
    ELSE <<Trim(value), None>>

HeaderExtension(values) ==
    WebSocketExtension(Trim(values[1]),
                       [i \in 1..(Len(values) - 1) |-> HeaderParam(values[i + 1])])

HeaderExtensions(extension_values) ==
    [i \in 1..Len(extension_values) |-> HeaderExtension(Split(extension_values[i], ";"))]

WebSocketExtensions_from(header_value) == HeaderExtensions(Split(header_value, ","))

(***************************************************************************)
(* struct Extensions (extensions/mod.rs): the extensions of one endpoint.  *)
(* Three things it calls are declared nowhere in deflate/mod.rs:           *)
(* create_extension, max_window_bits and new_from_extension_params.  They  *)
(* are modelled from the specification: the offer of create_offer, the     *)
(* full window, and verify_response.                                       *)
(***************************************************************************)
Extensions(deflate) == [deflate |-> deflate]

\* DeflateConfig::name
DeflateConfig_name(self) == PERMESSAGE_DEFLATE_NAME

\* create_offer of the specification: the bare server_no_context_takeover when
\* request_no_context_takeover is set, and nothing else
create_extension(deflate) ==
    WebSocketExtension(PERMESSAGE_DEFLATE_NAME,
        IF deflate.request_no_context_takeover
        THEN <<<<PARAM_SERVER_NO_CONTEXT_TAKEOVER, None>>>>
        ELSE <<>>)

\* the window of this endpoint: always the full window
max_window_bits(deflate) == 15

\* verify_response of the specification, which DeflateContext::new implements
new_from_extension_params(deflate, params) == DeflateContext_new(deflate, params)

\* str::parse::<u8> on the strings the model uses: an optional "+" and decimal
\* digits, leading zeros allowed, nothing else
parse_u8(val) ==
    CASE val \in {"0"} -> Some(0)
      [] val \in {"1"} -> Some(1)
      [] val \in {"7"} -> Some(7)
      [] val \in {"8", "08", "+8"} -> Some(8)
      [] val \in {"9"} -> Some(9)
      [] val \in {"10"} -> Some(10)
      [] val \in {"11"} -> Some(11)
      [] val \in {"12"} -> Some(12)
      [] val \in {"13"} -> Some(13)
      [] val \in {"14"} -> Some(14)
      [] val \in {"15", "015"} -> Some(15)
      [] val \in {"16"} -> Some(16)
      [] OTHER -> None

ResolvedExtensions(deflate) == [deflate |-> deflate]
ResolvedExtensions_default == ResolvedExtensions(None)

\* Extensions::create_offers
create_offers(self) ==
    IF IsSome(self.deflate)
    THEN <<create_extension(Unwrap(self.deflate))>>
    ELSE <<>>

\* Extensions::negotiate_offers.  stopped is the `break` out of the loop.
NegotiateLocals == [params |-> <<>>, rejected |-> FALSE, stopped |-> FALSE]

NegotiateClientMaxWindowBits(st, deflate, val) ==
    IF IsSome(val) /\ IsSome(parse_u8(Unwrap(val)))
       /\ (\/ Unwrap(parse_u8(Unwrap(val))) < 8
           \/ Unwrap(parse_u8(Unwrap(val))) > 15
           \/ Unwrap(parse_u8(Unwrap(val))) >= max_window_bits(deflate))
    THEN [st EXCEPT !.rejected = TRUE, !.stopped = TRUE]
    ELSE st

NegotiateClientNoContextTakeover(st) ==
    [st EXCEPT !.params = Append(@, <<PARAM_CLIENT_NO_CONTEXT_TAKEOVER, None>>)]

NegotiateServerMaxWindowBits(st) == st

NegotiateServerNoContextTakeover(st) ==
    [st EXCEPT !.params = Append(@, <<PARAM_SERVER_NO_CONTEXT_TAKEOVER, None>>)]

NegotiateUnknownParameter(st) == [st EXCEPT !.stopped = TRUE]

NegotiateParam(st, deflate, key, val) ==
    CASE key = PARAM_CLIENT_MAX_WINDOW_BITS -> NegotiateClientMaxWindowBits(st, deflate, val)
      [] key = PARAM_CLIENT_NO_CONTEXT_TAKEOVER -> NegotiateClientNoContextTakeover(st)
      [] key = PARAM_SERVER_MAX_WINDOW_BITS -> NegotiateServerMaxWindowBits(st)
      [] key = PARAM_SERVER_NO_CONTEXT_TAKEOVER -> NegotiateServerNoContextTakeover(st)
      [] OTHER -> NegotiateUnknownParameter(st)

RECURSIVE NegotiateLoop(_, _, _, _)
NegotiateLoop(deflate, params, i, st) ==
    IF i > Len(params) \/ st.stopped
    THEN st
    ELSE NegotiateLoop(deflate, params, i + 1,
                       NegotiateParam(st, deflate, params[i][1], params[i][2]))

\* offers.iter().find(|offer| offer.name == PERMESSAGE_DEFLATE_NAME)
DeflateOffers(offers) ==
    {i \in 1..Len(offers) : offers[i].name = PERMESSAGE_DEFLATE_NAME}
FindDeflateOffer(offers) ==
    CHOOSE i \in DeflateOffers(offers) : \A j \in DeflateOffers(offers) : i <= j

Negotiated(accepted_offers, resolved_extensions) ==
    Ok([accepted_offers |-> accepted_offers, resolved_extensions |-> resolved_extensions])

\* the context made from params, or the error `?` returns
NegotiateResolved(params, context) ==
    IF context.ok
    THEN Negotiated(<<WebSocketExtension(PERMESSAGE_DEFLATE_NAME, params)>>,
                    ResolvedExtensions(Some(context.val)))
    ELSE context

NegotiateOffer(deflate, st) ==
    IF ~st.rejected
    THEN NegotiateResolved(st.params, new_from_extension_params(deflate, st.params))
    ELSE Negotiated(<<>>, ResolvedExtensions_default)

negotiate_offers(self, offers) ==
    IF IsSome(self.deflate) /\ DeflateOffers(offers) # {}
    THEN NegotiateOffer(Unwrap(self.deflate),
             NegotiateLoop(Unwrap(self.deflate),
                           offers[FindDeflateOffer(offers)].params, 1, NegotiateLocals))
    ELSE Negotiated(<<>>, ResolvedExtensions_default)

\* Extensions::verify_extensions.  One turn of the loop over the agreed
\* extensions: ret is the value of an early return.
VerifyTurn(resolved_extensions, ret) == [resolved_extensions |-> resolved_extensions, ret |-> ret]

VerifyResolved(context) ==
    IF context.ok
    THEN VerifyTurn(Some(ResolvedExtensions(Some(context.val))), None)
    ELSE VerifyTurn(None, Some(context))


\* mutant: the name of an agreed extension is not looked at
VerifyExtension_AnyName(deflate, extension, resolved_extensions) ==
    IF IsSome(resolved_extensions)
    THEN VerifyTurn(resolved_extensions, Some(Err("ExtensionConflict", Some(extension.name))))
    ELSE VerifyResolved(new_from_extension_params(deflate, extension.params))

\* mutant: a second permessage-deflate entry replaces the first
VerifyExtension_LastWins(deflate, extension, resolved_extensions) ==
    IF extension.name # DeflateConfig_name(deflate)
    THEN VerifyTurn(resolved_extensions, Some(Err("InvalidExtension", Some(extension.name))))
    ELSE VerifyResolved(new_from_extension_params(deflate, extension.params))

VerifyExtension(deflate, extension, resolved_extensions) ==
    IF extension.name # DeflateConfig_name(deflate)
    THEN VerifyTurn(resolved_extensions, Some(Err("InvalidExtension", Some(extension.name))))
    ELSE IF IsSome(resolved_extensions)
    THEN VerifyTurn(resolved_extensions, Some(Err("ExtensionConflict", Some(extension.name))))
    ELSE VerifyResolved(new_from_extension_params(deflate, extension.params))

RECURSIVE VerifyLoop(_, _, _, _)
VerifyLoop(deflate, agreed, i, turn) ==
    IF IsSome(turn.ret)
    THEN Unwrap(turn.ret)
    ELSE IF i > Len(agreed)
    THEN Ok(turn.resolved_extensions)
    ELSE VerifyLoop(deflate, agreed, i + 1,
                    VerifyExtension(deflate, agreed[i], turn.resolved_extensions))

verify_extensions(self, agreed) ==
    IF IsSome(self.deflate)
    THEN VerifyLoop(Unwrap(self.deflate), agreed, 1, VerifyTurn(None, None))
    ELSE IF Len(agreed) > 0
    THEN Err("InvalidExtension", Some(agreed[1].name))
    ELSE Ok(None)

(***************************************************************************)
(* Byte strings and Vec<u8>.  A Vec is its bytes and its capacity; flate2's *)
(* *_vec calls write into the spare capacity only.                         *)
(***************************************************************************)
Min(a, b) == IF a <= b THEN a ELSE b
Max(a, b) == IF a >= b THEN a ELSE b
Take(s, k) == SubSeq(s, 1, k)
Drop(s, k) == SubSeq(s, k + 1, Len(s))
EndsWith(s, t) == Len(s) >= Len(t) /\ Drop(s, Len(s) - Len(t)) = t
Rep(b, k) == [i \in 1..k |-> b]

Vec_with_capacity(n) == [data |-> <<>>, cap |-> n]
Spare(v) == v.cap - Len(v.data)
\* Vec::reserve: nothing when the spare capacity suffices, else amortized growth
\* to max(2 * cap, len + additional, 8)
Vec_reserve(v, additional) ==
    IF Spare(v) >= additional
    THEN v
    ELSE [v EXCEPT !.cap = Max(8, Max(2 * v.cap, Len(v.data) + additional))]
\* the first bytes that fit are appended; the rest is returned as left
Vec_write(v, bytes) ==
    LET k == Min(Spare(v), Len(bytes))
    IN  [vec |-> [v EXCEPT !.data = @ \o Take(bytes, k)], left |-> Drop(bytes, k)]

(***************************************************************************)
(* The raw-deflate format, byte aligned.  A stored block is the real       *)
(* RFC 1951 one: 00, LEN, ~LEN (little endian), data.  A sync flush ends    *)
(* with the empty stored block 00 00 00 FF FF.  Levels above 0 replace a     *)
(* lookahead that repeats bytes of the window by a back reference          *)
(* (02, length, distance), the byte-aligned stand-in for LZ77 matches; data *)
(* that does not repeat is stored, as deflate does with incompressible     *)
(* data.                                                                   *)
(***************************************************************************)
MIN_MATCH == 3

StoredBlock(data) ==
    <<0, Len(data) % 256, Len(data) \div 256,
      255 - (Len(data) % 256), 255 - (Len(data) \div 256)>> \o data

SyncMarker == StoredBlock(<<>>)

MatchDistances(window, data) ==
    {d \in Len(data)..Len(window) :
        SubSeq(window, Len(window) - d + 1, Len(window) - d + Len(data)) = data}

Least(S) == CHOOSE x \in S : \A y \in S : x <= y

\* the block a flush emits for the lookahead (not empty)
EncodeBlock(level, window, data) ==
    IF level > 0 /\ Len(data) >= MIN_MATCH /\ MatchDistances(window, data) # {}
    THEN <<2, Len(data), Least(MatchDistances(window, data))>>
    ELSE StoredBlock(data)

\* miniz_oxide flushes a block even when it has no data: an empty stored block
\* at level 0, an empty static block (header and end-of-block) above
EmptyBlock(level) == IF level = 0 THEN StoredBlock(<<>>) ELSE <<2, 0>>

(***************************************************************************)
(* flate2::Compress::compress_vec(input, output, flush).  The stream takes *)
(* all of the input into its lookahead, emits nothing before a flush       *)
(* (payloads are shorter than a deflate block) and hands encoded bytes out *)
(* through pending, as many as the spare capacity of output takes.         *)
(*   zlib: a sync flush queues the block, and the marker only once the     *)
(*   block left pending with room to spare; a repeated flush with no input *)
(*   and nothing pending is refused with Z_BUF_ERROR.                      *)
(*   miniz_oxide: a sync flush queues block and marker together, and a     *)
(*   call that finds bytes pending only drains them when input is empty.   *)
(***************************************************************************)
Backends == {"zlib", "miniz_oxide"}

Rank(flush) ==
    CASE flush = "Fresh" -> -4
      [] flush = "Retry" -> -2
      [] flush = "None" -> 0
      [] flush = "Sync" -> 4

CodecResult(z, output, status) == [z |-> z, output |-> output, status |-> status]

\* pending bytes move to output
Drain(z, output) ==
    LET w == Vec_write(output, z.pending)
    IN  [z |-> [z EXCEPT !.pending = w.left], output |-> w.vec]

\* the lookahead leaves as one block and joins the window
FlushBlock(z, block) ==
    [z EXCEPT !.pending = @ \o block,
              !.window = @ \o z.lookahead,
              !.lookahead = <<>>]

TakeInput(z, input, flush) ==
    [z EXCEPT !.lookahead = @ \o input,
              !.total_in = @ + Len(input),
              !.last_flush = flush]

\* the call is complete: whatever was queued has left pending
Flushed(d) == CodecResult(d.z, d.output, "Ok")

\* output filled up before the flush was complete: the next call may repeat it
Unfinished(d) == CodecResult([d.z EXCEPT !.last_flush = "Retry"], d.output, "Ok")

\* d3: the stream and the output once the marker was queued and drained
ZlibMarkerDrained(d3) == IF Spare(d3.output) = 0 THEN Unfinished(d3) ELSE Flushed(d3)

\* d2: the stream and the output once the block was queued and drained
ZlibBlockDrained(d2) ==
    IF Spare(d2.output) = 0
    THEN Unfinished(d2)
    ELSE ZlibMarkerDrained(Drain([d2.z EXCEPT !.pending = SyncMarker], d2.output))

\* z1: the stream holding the input of this call
ZlibSyncFlush(z1, output) ==
    ZlibBlockDrained(
        Drain(IF z1.lookahead = <<>>
              THEN z1
              ELSE FlushBlock(z1, EncodeBlock(z1.level, z1.window, z1.lookahead)),
              output))

\* d: the stream and the output once what the last call left pending was drained
ZlibDrained(z, d, input, output, flush) ==
    IF z.pending # <<>> /\ Spare(d.output) = 0
    THEN Unfinished(d)
    ELSE IF z.pending = <<>> /\ input = <<>> /\ Rank(flush) <= Rank(z.last_flush)
    THEN CodecResult([z EXCEPT !.last_flush = flush], output, "BufError")
    ELSE IF flush = "None"
    THEN CodecResult(TakeInput(d.z, input, flush), d.output, "Ok")
    ELSE ZlibSyncFlush(TakeInput(d.z, input, flush), d.output)

ZlibDeflate(z, input, output, flush) ==
    ZlibDrained(z, Drain(z, output), input, output, flush)

MinizSyncFlush(z1, output) ==
    Flushed(Drain(FlushBlock(z1, (IF z1.lookahead = <<>>
                                  THEN EmptyBlock(z1.level)
                                  ELSE EncodeBlock(z1.level, z1.window, z1.lookahead))
                                 \o SyncMarker),
                  output))

MinizTakeInput(z, input) ==
    [z EXCEPT !.lookahead = @ \o input, !.total_in = @ + Len(input)]

\* d: the stream and the output once what the last call left pending was drained
MinizDrained(z, d, input, flush) ==
    IF z.pending # <<>> /\ (Spare(d.output) = 0 \/ input = <<>>)
    THEN Flushed(d)
    ELSE IF flush = "None"
    THEN CodecResult(MinizTakeInput(d.z, input), d.output,
                     IF input = <<>> /\ z.pending = <<>> THEN "BufError" ELSE "Ok")
    ELSE MinizSyncFlush(MinizTakeInput(d.z, input), d.output)

MinizDeflate(z, input, output, flush) ==
    MinizDrained(z, Drain(z, output), input, flush)

compress_vec(be, z, input, output, flush) ==
    IF Spare(output) = 0
    THEN CodecResult(z, output, "BufError")
    ELSE IF be = "zlib"
         THEN ZlibDeflate(z, input, output, flush)
         ELSE MinizDeflate(z, input, output, flush)

(***************************************************************************)
(* flate2::Decompress::decompress_vec(input, output, FlushDecompress::None) *)
(* The inflate state machine reads the stream byte by byte and writes      *)
(* while output has spare capacity.                                        *)
(***************************************************************************)
EndBlock(d) == [d EXCEPT !.mode = IF d.last THEN "DONE" ELSE "HEAD", !.len = 0, !.aux = 0]

\* one input byte b taken in a mode that reads
InflateByte(d, b) ==
    CASE d.mode = "HEAD" ->
            [d EXCEPT !.last = (b % 2 = 1),
                      !.mode = CASE (b \div 2) % 4 = 0 -> "LEN_LO"
                                 [] (b \div 2) % 4 = 1 -> "MLEN"
                                 [] OTHER -> "BAD"]
      [] d.mode = "LEN_LO" -> [d EXCEPT !.len = b, !.mode = "LEN_HI"]
      [] d.mode = "LEN_HI" -> [d EXCEPT !.len = @ + 256 * b, !.mode = "NLEN_LO"]
      [] d.mode = "NLEN_LO" ->
            IF b = 255 - (d.len % 256) THEN [d EXCEPT !.mode = "NLEN_HI"]
                                       ELSE [d EXCEPT !.mode = "BAD"]
      [] d.mode = "NLEN_HI" ->
            IF b # 255 - (d.len \div 256) THEN [d EXCEPT !.mode = "BAD"]
            ELSE IF d.len = 0 THEN EndBlock(d)
            ELSE [d EXCEPT !.mode = "STORED"]
      [] d.mode = "MLEN" ->
            IF b = 0 THEN EndBlock(d) ELSE [d EXCEPT !.len = b, !.mode = "MDIST"]
      [] d.mode = "MDIST" ->
            IF b = 0 \/ b > Len(d.window)
            THEN [d EXCEPT !.mode = "BAD"]
            ELSE [d EXCEPT !.aux = b, !.mode = "COPY"]

\* one byte b written: it joins the window, and the block ends with its last byte
InflateOut(d, b) ==
    LET d1 == [d EXCEPT !.window = Append(@, b), !.len = @ - 1]
    IN  IF d1.len = 0 THEN EndBlock(d1) ELSE d1

RECURSIVE InflateRun(_, _, _, _, _)
InflateRun(d, input, pos, produced, room) ==
    CASE d.mode \in {"BAD", "DONE"} ->
            [d |-> d, pos |-> pos, produced |-> produced]
      [] d.mode = "COPY" ->
            IF room = 0
            THEN [d |-> d, pos |-> pos, produced |-> produced]
            ELSE LET b == d.window[Len(d.window) - d.aux + 1]
                 IN  InflateRun(InflateOut(d, b), input, pos, Append(produced, b), room - 1)
      [] d.mode = "STORED" ->
            IF room = 0 \/ pos > Len(input)
            THEN [d |-> d, pos |-> pos, produced |-> produced]
            ELSE InflateRun(InflateOut(d, input[pos]), input, pos + 1,
                            Append(produced, input[pos]), room - 1)
      [] OTHER ->
            IF pos > Len(input)
            THEN [d |-> d, pos |-> pos, produced |-> produced]
            ELSE InflateRun(InflateByte(d, input[pos]), input, pos + 1, produced, room)

\* r: where InflateRun stopped
Inflated(r, output) ==
    CodecResult([r.d EXCEPT !.total_in = @ + (r.pos - 1)],
                [output EXCEPT !.data = @ \o r.produced],
                CASE r.d.mode = "BAD" -> "DataError"
                  [] r.d.mode = "DONE" -> "StreamEnd"
                  [] r.pos = 1 /\ r.produced = <<>> -> "BufError"
                  [] OTHER -> "Ok")

decompress_vec(d, input, output) ==
    Inflated(InflateRun(d, input, 1, <<>>, Spare(output)), output)

(***************************************************************************)
(* DeflateContext::compress.                                               *)
(***************************************************************************)
\* the first loop: feed data until total_in shows that all of it was consumed
RECURSIVE CompressFeed(_, _, _, _, _)
\* r: what compress_vec returned in this round
CompressFeedMatch(be, r, data, before_in) ==
    CASE r.status = "Ok" -> CompressFeed(be, r.z, data, before_in, r.output)
      [] r.status = "BufError" ->
             CompressFeed(be, r.z, data, before_in, Vec_reserve(r.output, 4096))
      [] OTHER -> [z |-> r.z, output |-> r.output]

CompressFeed(be, z, data, before_in, output) ==
    IF z.total_in - before_in < Len(data)
    THEN CompressFeedMatch(
             be, compress_vec(be, z, Drop(data, z.total_in - before_in), output, "None"),
             data, before_in)
    ELSE [z |-> z, output |-> output]

\* the second loop: sync-flush until the output ends with TRAILER.  A round that
\* changes neither the stream nor the output repeats for ever: hung.
RECURSIVE CompressFlush(_, _, _)
\* r: what compress_vec returned in this round
CompressFlushMatch(be, z, output, reserved, r) ==
    IF r.status = "StreamEnd"
    THEN [z |-> r.z, output |-> r.output, hung |-> FALSE]
    ELSE IF r.z = z /\ r.output = reserved /\ reserved = output
    THEN [z |-> z, output |-> output, hung |-> TRUE]
    ELSE CompressFlush(be, r.z, r.output)

\* reserved: output after output.reserve(5)
CompressFlushRound(be, z, output, reserved) ==
    CompressFlushMatch(be, z, output, reserved,
                       compress_vec(be, z, <<>>, reserved, "Sync"))

CompressFlush(be, z, output) ==
    IF EndsWith(output.data, TRAILER)
    THEN [z |-> z, output |-> output, hung |-> FALSE]
    ELSE CompressFlushRound(be, z, output, Vec_reserve(output, 5))

\* output.truncate(output.len() - 4)
Truncate(data) == Take(data, Len(data) - 4)

\* mutant: the compressor is never reset
CompressReset_Never(config, z) == z

\* mutant: the compressor is reset when the peer was asked to reset
CompressReset_OnRequest(config, z) ==
    IF config.request_no_context_takeover THEN Compress_new(z.level) ELSE z

\* self.compressor.reset() when the config says so
CompressReset(config, z) ==
    IF config.accept_no_context_takeover THEN Compress_new(z.level) ELSE z

\* fed: the stream and the output after the first loop
CompressFlushFed(be, fed) == CompressFlush(be, fed.z, fed.output)

\* mutant: compress resets the decompressor along with the compressor
CompressReturn_ResetsBoth(self, flushed) ==
    IF flushed.hung
    THEN [self |-> [self EXCEPT !.compressor = flushed.z], hung |-> TRUE,
          result |-> Ok(<<>>)]
    ELSE [self |-> [self EXCEPT !.compressor = CompressReset(self.config, flushed.z),
                                !.decompressor =
                                    IF self.config.accept_no_context_takeover
                                    THEN Decompress_new ELSE @],
          hung |-> FALSE,
          result |-> Ok(Truncate(flushed.output.data))]

\* flushed: the stream and the output after the second loop
CompressReturn(self, flushed) ==
    IF flushed.hung
    THEN [self |-> [self EXCEPT !.compressor = flushed.z], hung |-> TRUE,
          result |-> Ok(<<>>)]
    ELSE [self |-> [self EXCEPT !.compressor = CompressReset(self.config, flushed.z)],
          hung |-> FALSE,
          result |-> Ok(Truncate(flushed.output.data))]

\* the context after the call and what the call returns; hung: it never returns
compress(be, self, data) ==
    CompressReturn(
        self,
        CompressFlushFed(
            be, CompressFeed(be, self.compressor, data, self.compressor.total_in,
                             Vec_with_capacity(Len(data)))))

(***************************************************************************)
(* DeflateContext::decompress.                                             *)
(***************************************************************************)
\* data.extend_from_slice(&TRAILER) on the final fragment
WithTrailer(data, is_final) == IF is_final THEN data \o TRAILER ELSE data

RECURSIVE DecompressFeed(_, _, _, _)
\* r: what decompress_vec returned in this round
DecompressFeedMatch(r, data, before_in) ==
    CASE r.status = "DataError" -> [d |-> r.z, output |-> r.output, failed |-> TRUE]
      [] r.status = "Ok" ->
             DecompressFeed(r.z, data, before_in,
                            Vec_reserve(r.output, 2 * Len(r.output.data)))
      [] OTHER -> [d |-> r.z, output |-> r.output, failed |-> FALSE]

DecompressFeed(d, data, before_in, output) ==
    DecompressFeedMatch(decompress_vec(d, Drop(data, d.total_in - before_in), output),
                        data, before_in)

\* self.decompressor.reset(false) after the final fragment when the config says so
DecompressReset(config, is_final, d) ==
    IF is_final /\ config.request_no_context_takeover THEN Decompress_new ELSE d

\* fed: the stream and the output after the loop
DecompressReturn(self, is_final, fed) ==
    IF fed.failed
    THEN [self |-> [self EXCEPT !.decompressor = fed.d],
          result |-> Err("Decompress", None)]
    ELSE [self |-> [self EXCEPT !.decompressor =
                                    DecompressReset(self.config, is_final, fed.d)],
          result |-> Ok(fed.output.data)]

\* input: data with the TRAILER when the fragment is final
DecompressInput(self, is_final, input) ==
    DecompressReturn(self, is_final,
                     DecompressFeed(self.decompressor, input, self.decompressor.total_in,
                                    Vec_with_capacity(2 * Len(input))))

decompress(self, data, is_final) ==
    DecompressInput(self, is_final, WithTrailer(data, is_final))


(***************************************************************************)
(* Inputs of the negotiation functions.                                    *)
(***************************************************************************)
KnownParams ==
    {PARAM_SERVER_NO_CONTEXT_TAKEOVER, PARAM_CLIENT_NO_CONTEXT_TAKEOVER,
     PARAM_SERVER_MAX_WINDOW_BITS, PARAM_CLIENT_MAX_WINDOW_BITS}

UnknownParams == {"unknown_parameter", "unknown-parameter"}

\* bare parameters of every name, the window-bits parameters with a valid and a
\* malformed value, and a context-takeover parameter carrying a value
ParamChoices ==
    {<<k, None>> : k \in KnownParams \cup UnknownParams}
    \cup {<<k, Some(v)>> : k \in {PARAM_SERVER_MAX_WINDOW_BITS, PARAM_CLIENT_MAX_WINDOW_BITS},
                           v \in {"10", "16"}}
    \cup {<<PARAM_SERVER_NO_CONTEXT_TAKEOVER, Some("10")>>}

WindowBitsParams == {PARAM_SERVER_MAX_WINDOW_BITS, PARAM_CLIENT_MAX_WINDOW_BITS}

\* values of a window-bits parameter: the eight decimal strings "8".."15" and
\* strings that are close to them
BitsStrings ==
    {"8", "9", "10", "11", "12", "13", "14", "15"}
    \cup {"", "0", "7", "16", "08", "015", "+8", "-8", " 8", "8 ", "1", "a"}

\* every list of up to MaxParams choices, and a window-bits parameter alone with
\* every value
ParamLists ==
    UNION {[1..n -> ParamChoices] : n \in 0..MaxParams}
    \cup {<<<<k, Some(v)>>>> : k \in WindowBitsParams, v \in BitsStrings}

ExtensionNames == {PERMESSAGE_DEFLATE_NAME, "custom-extension"}

(***************************************************************************)
(* The negotiation functions applied once to every input.                  *)
(***************************************************************************)
\* no handshake has begun
HsIdle ==
    hs = [stage |-> "idle",
          client |-> DeflateConfig_default,
          server |-> DeflateConfig_default,
          offer |-> WebSocketExtension(PERMESSAGE_DEFLATE_NAME, <<>>),
          response |-> None,
          resolved |-> None]

\* no method of Extensions was called
ExtIdle ==
    ext = [op |-> "none", deflate |-> None, arg |-> <<>>, result |-> None]

\* no connection was opened
ConnIdle ==
    conn = [stage |-> "idle", backend |-> "miniz_oxide",
            client |-> DeflateContext_from(DeflateConfig_default),
            server |-> DeflateContext_from(DeflateConfig_default),
            dir |-> "none", sent |-> <<>>, wire |-> <<>>,
            compressor_reset |-> FALSE, decompressor_reset |-> FALSE,
            result |-> None, nmsgs |-> 0]

CodecIdle ==
    /\ backend = "miniz_oxide"
    /\ ctx = DeflateContext_from(DeflateConfig_default)
    /\ pc = "idle"
    /\ sent = <<>>
    /\ wire = <<>>
    /\ rcvd = 0
    /\ nfrags = 0
    /\ got = <<>>
    /\ dec0 = Decompress_new
    /\ nmsgs = 0

NegInit ==
    /\ op = "none"
    /\ in_config = DeflateConfig_default
    /\ in_ext = WebSocketExtension(PERMESSAGE_DEFLATE_NAME, <<>>)
    /\ result = None
    /\ CodecIdle
    /\ HsIdle
    /\ ExtIdle
    /\ ConnIdle

AcceptOffer ==
    /\ op = "none"
    /\ \E c \in Configs, name \in ExtensionNames, ps \in ParamLists :
          /\ op' = "accept_offer"
          /\ in_config' = c
          /\ in_ext' = WebSocketExtension(name, ps)
          /\ result' = accept_offer(c, WebSocketExtension(name, ps))
    /\ UNCHANGED <<codecVars, extVars>>

NewContext ==
    /\ op = "none"
    /\ \E c \in Configs, ps \in ParamLists :
          /\ op' = "new"
          /\ in_config' = c
          /\ in_ext' = WebSocketExtension(PERMESSAGE_DEFLATE_NAME, ps)
          /\ result' = DeflateContext_new(c, ps)
    /\ UNCHANGED <<codecVars, extVars>>

\* is_valid_max_window_bits applied to the value of a window-bits parameter
ValidateBits ==
    /\ op = "none"
    /\ \E k \in WindowBitsParams, bits \in BitsStrings :
          /\ op' = "is_valid_max_window_bits"
          /\ in_ext' = WebSocketExtension(PERMESSAGE_DEFLATE_NAME, <<<<k, Some(bits)>>>>)
          /\ result' = is_valid_max_window_bits(bits)
    /\ UNCHANGED <<in_config, codecVars, extVars>>

NegNext == AcceptOffer \/ NewContext \/ ValidateBits

SpecNegotiation == NegInit /\ [][NegNext]_vars


(***************************************************************************)
(* One DeflateContext in loop-back: a payload is compressed, and the bytes *)
(* compress returned are given to decompress of the same context, whole    *)
(* (is_final) or in fragments (non-final ones first).                      *)
(***************************************************************************)
Byte == {0, 255}
FillLens == {0, 1, 5}

RECURSIVE Trailers(_)
Trailers(i) == IF i = 0 THEN <<>> ELSE TRAILER \o Trailers(i - 1)

\* runs of one byte value, and payloads that begin with copies of TRAILER
Payloads ==
    {Rep(b, k) : b \in Byte, k \in 0..MaxLen}
    \cup {Trailers(i) \o Rep(0, j) : i \in 1..MaxTrailers, j \in FillLens}

NegIdle ==
    /\ op = "none"
    /\ in_config = DeflateConfig_default
    /\ in_ext = WebSocketExtension(PERMESSAGE_DEFLATE_NAME, <<>>)
    /\ result = None

Init ==
    /\ NegIdle
    /\ HsIdle
    /\ ExtIdle
    /\ ConnIdle
    /\ backend \in Backends
    /\ \E c \in Configs : ctx = DeflateContext_from(c)
    /\ pc = "idle"
    /\ sent = <<>>
    /\ wire = <<>>
    /\ rcvd = 0
    /\ nfrags = 0
    /\ got = <<>>
    /\ dec0 = Decompress_new
    /\ nmsgs = 0

Compress ==
    /\ pc \in {"idle", "delivered"}
    /\ nmsgs < MaxMsgs
    /\ \E p \in Payloads :
          \E r \in {compress(backend, ctx, p)} :
              /\ ctx' = r.self
              /\ sent' = p
              /\ pc' = IF r.hung THEN "hung" ELSE "compressed"
              /\ wire' = r.result.val
    /\ rcvd' = 0
    /\ nfrags' = 0
    /\ got' = <<>>
    /\ dec0' = ctx.decompressor
    /\ nmsgs' = nmsgs + 1
    /\ UNCHANGED <<backend, negVars, extVars>>

\* decompress(fragment, false) on the next k bytes of the message
DecompressFragment ==
    /\ pc \in {"compressed", "partial"}
    /\ nfrags < MaxFrags
    /\ nfrags' = nfrags + 1
    /\ \E k \in 1..(Len(wire) - rcvd) :
          \E r \in {decompress(ctx, SubSeq(wire, rcvd + 1, rcvd + k), FALSE)} :
              /\ ctx' = r.self
              /\ rcvd' = rcvd + k
              /\ pc' = IF r.result.ok THEN "partial" ELSE "error"
              /\ got' = IF r.result.ok THEN got \o r.result.val ELSE got
    /\ UNCHANGED <<backend, sent, wire, dec0, nmsgs, negVars, extVars>>

\* decompress(rest, true) on what is left of the message
DecompressFinal ==
    /\ pc \in {"compressed", "partial"}
    /\ \E r \in {decompress(ctx, Drop(wire, rcvd), TRUE)} :
          /\ ctx' = r.self
          /\ pc' = IF r.result.ok THEN "delivered" ELSE "error"
          /\ got' = IF r.result.ok THEN got \o r.result.val ELSE got
    /\ rcvd' = Len(wire)
    /\ UNCHANGED <<backend, sent, wire, nfrags, dec0, nmsgs, negVars, extVars>>

Next == Compress \/ DecompressFragment \/ DecompressFinal

Spec == Init /\ [][Next]_vars

(***************************************************************************)
(* One handshake: a client offers permessage-deflate, the server answers   *)
(* with accept_offer, and the client resolves the response with            *)
(* DeflateContext::new.  The offer is the conversion of the client's       *)
(* config, or a record put together by hand as the tests of the module do. *)
(***************************************************************************)
MaxOfferParams == 2

HandBuiltOffers ==
    {WebSocketExtension(PERMESSAGE_DEFLATE_NAME, ps) :
        ps \in UNION {[1..n -> ParamChoices] : n \in 0..MaxOfferParams}}

HsInit ==
    /\ NegIdle
    /\ CodecIdle
    /\ HsIdle
    /\ ExtIdle
    /\ ConnIdle

HsOffer ==
    /\ hs.stage = "idle"
    /\ \E c \in Configs, s \in Configs :
          \E o \in {WebSocketExtension_from(c)} \cup HandBuiltOffers :
              hs' = [hs EXCEPT !.stage = "offered", !.client = c, !.server = s,
                               !.offer = o]
    /\ UNCHANGED <<negVars, codecVars, ext, conn>>

HsAccept ==
    /\ hs.stage = "offered"
    /\ \E r \in {accept_offer(hs.server, hs.offer)} :
          hs' = [hs EXCEPT !.stage = IF IsSome(r) THEN "responded" ELSE "declined",
                           !.response = r]
    /\ UNCHANGED <<negVars, codecVars, ext, conn>>

HsVerify ==
    /\ hs.stage = "responded"
    /\ hs' = [hs EXCEPT !.stage = "verified",
                        !.resolved = Some(DeflateContext_new(hs.client,
                                              Unwrap(hs.response).params))]
    /\ UNCHANGED <<negVars, codecVars, ext, conn>>

HsNext == HsOffer \/ HsAccept \/ HsVerify

SpecHandshake == HsInit /\ [][HsNext]_vars

(***************************************************************************)
(* The methods of Extensions, and the conversion of a DeflateConfig into   *)
(* an offer, applied once to every input.                                  *)
(***************************************************************************)
MaxExtensions == 2
MaxExtParams == 2

\* parameters of an extension on the wire: the bare ones of every name, and
\* window-bits values inside the window, at its edge, outside and not a number
ExtParamChoices ==
    {<<k, None>> : k \in {PARAM_SERVER_NO_CONTEXT_TAKEOVER, PARAM_CLIENT_NO_CONTEXT_TAKEOVER,
                          PARAM_CLIENT_MAX_WINDOW_BITS, "unknown_parameter"}}
    \cup {<<PARAM_CLIENT_MAX_WINDOW_BITS, Some(v)>> : v \in {"10", "15", "16", "a"}}
    \cup {<<PARAM_SERVER_MAX_WINDOW_BITS, Some("10")>>}

WireExtensions ==
    {WebSocketExtension(PERMESSAGE_DEFLATE_NAME, ps) :
        ps \in UNION {[1..n -> ExtParamChoices] : n \in 0..MaxExtParams}}
    \cup {WebSocketExtension("custom-extension", <<>>)}

ExtensionLists == UNION {[1..n -> WireExtensions] : n \in 0..MaxExtensions}

\* Extensions { deflate }: no permessage-deflate, or a config
ExtensionsValues ==
    {Extensions(None)}
    \cup {Extensions(Some(DeflateConfig(6, r, a))) : r \in BOOLEAN, a \in BOOLEAN}

ExtInit ==
    /\ NegIdle
    /\ CodecIdle
    /\ HsIdle
    /\ ExtIdle
    /\ ConnIdle

\* WebSocketExtension::from(config)
ExtFrom ==
    /\ ext.op = "none"
    /\ \E c \in Configs :
          ext' = [op |-> "from", deflate |-> Some(c), arg |-> <<>>,
                  result |-> <<WebSocketExtension_from(c)>>]
    /\ UNCHANGED <<negVars, codecVars, hs, conn>>

ExtCreateOffers ==
    /\ ext.op = "none"
    /\ \E self \in ExtensionsValues \cup {Extensions(Some(c)) : c \in Configs} :
          ext' = [op |-> "create_offers", deflate |-> self.deflate, arg |-> <<>>,
                  result |-> create_offers(self)]
    /\ UNCHANGED <<negVars, codecVars, hs, conn>>

ExtNegotiateOffers ==
    /\ ext.op = "none"
    /\ \E self \in ExtensionsValues, offers \in ExtensionLists :
          ext' = [op |-> "negotiate_offers", deflate |-> self.deflate, arg |-> offers,
                  result |-> negotiate_offers(self, offers)]
    /\ UNCHANGED <<negVars, codecVars, hs, conn>>

ExtVerifyExtensions ==
    /\ ext.op = "none"
    /\ \E self \in ExtensionsValues, agreed \in ExtensionLists :
          ext' = [op |-> "verify_extensions", deflate |-> self.deflate, arg |-> agreed,
                  result |-> verify_extensions(self, agreed)]
    /\ UNCHANGED <<negVars, codecVars, hs, conn>>

MaxHeaderLen == 7

\* header values: a name character, the three separators and a space
HeaderChars == {"a", "=", ";", ",", " "}
HeaderValues == UNION {[1..n -> HeaderChars] : n \in 0..MaxHeaderLen}

\* WebSocketExtensions::from(&header_value)
ExtFromHeader ==
    /\ ext.op = "none"
    /\ \E header_value \in HeaderValues :
          ext' = [op |-> "from_header", deflate |-> None, arg |-> header_value,
                  result |-> WebSocketExtensions_from(header_value)]
    /\ UNCHANGED <<negVars, codecVars, hs, conn>>

ExtNext ==
    \/ ExtFrom
    \/ ExtCreateOffers
    \/ ExtNegotiateOffers
    \/ ExtVerifyExtensions
    \/ ExtFromHeader

SpecExtensions == ExtInit /\ [][ExtNext]_vars

(***************************************************************************)
(* One connection.  The client offers what its config converts to, the     *)
(* server resolves its context with negotiate_offers and the client its    *)
(* own with verify_extensions on what the server accepted.  Then messages  *)
(* travel in both directions: the sender compresses with its context, the  *)
(* receiver decompresses with its own.                                     *)
(***************************************************************************)
MaxConnMsgs == 2

ConnInit ==
    /\ NegIdle
    /\ CodecIdle
    /\ HsIdle
    /\ ExtIdle
    /\ ConnIdle

\* the handshake, kept when it succeeds on both sides
ConnHandshake ==
    /\ conn.stage = "idle"
    /\ \E be \in Backends, client \in ExtensionsValues, server \in ExtensionsValues :
          /\ IsSome(client.deflate)
          /\ \E offers \in {create_offers(client),
                             <<WebSocketExtension_from(Unwrap(client.deflate))>>} :
              \E negotiated \in {negotiate_offers(server, offers)} :
                /\ negotiated.ok
                /\ IsSome(negotiated.val.resolved_extensions.deflate)
                /\ \E verified \in {verify_extensions(client,
                                          negotiated.val.accepted_offers)} :
                      /\ verified.ok
                      /\ IsSome(verified.val)
                      /\ conn' = [conn EXCEPT
                            !.stage = "open",
                            !.backend = be,
                            !.client = Unwrap(Unwrap(verified.val).deflate),
                            !.server = Unwrap(negotiated.val.resolved_extensions.deflate)]
    /\ UNCHANGED <<negVars, codecVars, hs, ext>>

\* the sender compresses a payload with its context
ConnSend ==
    /\ \/ conn.stage = "open"
       \/ conn.stage = "received" /\ Unwrap(conn.result).ok
    /\ conn.nmsgs < MaxConnMsgs
    /\ \E dir \in {"c2s", "s2c"}, p \in Payloads :
          \E r \in {compress(conn.backend,
                             IF dir = "c2s" THEN conn.client ELSE conn.server, p)} :
              conn' = [conn EXCEPT
                  !.stage = IF r.hung THEN "hung" ELSE "sent",
                  !.dir = dir,
                  !.client = IF dir = "c2s" THEN r.self ELSE @,
                  !.server = IF dir = "s2c" THEN r.self ELSE @,
                  !.sent = p,
                  !.wire = r.result.val,
                  !.compressor_reset =
                      ~r.hung /\ r.self.compressor = Compress_new(r.self.compressor.level),
                  !.decompressor_reset = FALSE,
                  !.result = None,
                  !.nmsgs = @ + 1]
    /\ UNCHANGED <<negVars, codecVars, hs, ext>>

\* the receiver decompresses the message as one final fragment with its context
ConnReceive ==
    /\ conn.stage = "sent"
    /\ \E r \in {decompress(IF conn.dir = "c2s" THEN conn.server ELSE conn.client,
                               conn.wire, TRUE)} :
          conn' = [conn EXCEPT
              !.stage = "received",
              !.client = IF conn.dir = "s2c" THEN r.self ELSE @,
              !.server = IF conn.dir = "c2s" THEN r.self ELSE @,
              !.decompressor_reset = r.self.decompressor = Decompress_new,
              !.result = Some(r.result)]
    /\ UNCHANGED <<negVars, codecVars, hs, ext>>

ConnNext == ConnHandshake \/ ConnSend \/ ConnReceive

SpecConnection == ConnInit /\ [][ConnNext]_vars


(***************************************************************************)
(* Claims about compress and decompress (checked under Spec).              *)
(***************************************************************************)
\* the final fragment was given to decompress
Finished == pc \in {"delivered", "error"}
\* decompress(wire, is_final = true) on the context as it was before the message
WholeMessage == decompress([ctx EXCEPT !.decompressor = dec0], wire, TRUE)

\* C1: round trip.  On a freshly created context, for every payload and every
\* config, decompress(compress(p), is_final = true) succeeds and returns p.
C1_RoundTrip ==
    (nmsgs = 1 /\ nfrags = 0 /\ Finished) => (pc = "delivered" /\ got = sent)

\* C2: whatever was compressed before on the context, the bytes a compress call
\* returns do not end with 00 00 FF FF.
C2_OutputNeverEndsWithTrailer ==
    pc = "compressed" => ~EndsWith(wire, TRAILER)

\* C3: for every split c = c1 ++ c2 of a compressed message c = compress(p),
\* decompress(c1, false) then decompress(c2, true) succeed, and their outputs
\* concatenated equal decompress(c, true) on an identical context, namely p.
C3_FragmentedEqualsWhole ==
    (nfrags = 1 /\ Finished) =>
        /\ pc = "delivered"
        /\ WholeMessage.result = Ok(got)
        /\ got = sent


(***************************************************************************)
(* Claims about the negotiation functions (checked under SpecNegotiation). *)
(***************************************************************************)
Accepted == op = "accept_offer"
Verified == op = "new"
DeflateOffer == Accepted /\ in_ext.name = PERMESSAGE_DEFLATE_NAME
Params == in_ext.params
Positions(key) == {i \in 1..Len(Params) : Params[i][1] = key}
ContextTakeoverParams ==
    {PARAM_SERVER_NO_CONTEXT_TAKEOVER, PARAM_CLIENT_NO_CONTEXT_TAKEOVER}
\* the parameters other than those at the positions in skip are context-takeover
\* parameters, each name at most once
OtherwiseValid(skip) ==
    /\ \A i \in (1..Len(Params)) \ skip : Params[i][1] \in ContextTakeoverParams
    /\ \A k \in ContextTakeoverParams : Cardinality(Positions(k) \ skip) <= 1

\* C4: accept_offer declines (None) every permessage-deflate offer that holds an
\* unrecognized parameter name, wherever it stands and for every local config.
C4_UnknownParameterDeclined ==
    (DeflateOffer /\ Keys(Params) \ KnownParams # {}) => result = None

C4_Witness ==
    /\ DeflateOffer
    /\ Len(Params) = 3
    /\ Params[1][1] = PARAM_SERVER_NO_CONTEXT_TAKEOVER
    /\ Params[2][1] = PARAM_CLIENT_MAX_WINDOW_BITS
    /\ Params[3][1] \in UnknownParams
    /\ in_config.accept_no_context_takeover
    /\ result = None

\* C5: accept_offer declines every permessage-deflate offer in which
\* server_no_context_takeover, client_no_context_takeover or
\* client_max_window_bits occurs more than once, whatever stands in between.
C5_DuplicateParameterDeclined ==
    (DeflateOffer /\ \E k \in KnownParams \ {PARAM_SERVER_MAX_WINDOW_BITS} :
                        Count(Params, k) >= 2)
        => result = None

C5_Witness ==
    /\ DeflateOffer
    /\ Len(Params) = 3
    /\ Params[1] = <<PARAM_CLIENT_MAX_WINDOW_BITS, None>>
    /\ Params[2] = <<PARAM_SERVER_NO_CONTEXT_TAKEOVER, None>>
    /\ Params[3] = <<PARAM_CLIENT_MAX_WINDOW_BITS, Some("10")>>
    /\ result = None

\* C6: accept_offer declines every permessage-deflate offer that holds a
\* server_max_window_bits parameter: bare, valid or malformed, at any position.
C6_ServerMaxWindowBitsDeclined ==
    (DeflateOffer /\ PARAM_SERVER_MAX_WINDOW_BITS \in Keys(Params)) => result = None

C6_Witness ==
    /\ DeflateOffer
    /\ Len(Params) = 2
    /\ Params[1] = <<PARAM_CLIENT_NO_CONTEXT_TAKEOVER, None>>
    /\ Params[2] = <<PARAM_SERVER_MAX_WINDOW_BITS, Some("10")>>
    /\ result = None

\* C7: an otherwise valid offer with a single client_max_window_bits is accepted
\* when that parameter is bare or has a value in "8".."15" and declined when its
\* value is malformed; no response of accept_offer holds client_max_window_bits.
C7_ClientMaxWindowBitsDropped ==
    /\ (Accepted /\ IsSome(result))
          => PARAM_CLIENT_MAX_WINDOW_BITS \notin Keys(Unwrap(result).params)
    /\ \A i \in 1..Len(Params) :
          (/\ DeflateOffer
           /\ Positions(PARAM_CLIENT_MAX_WINDOW_BITS) = {i}
           /\ OtherwiseValid({i}))
             => IF IsSome(Params[i][2]) /\ ~(Params[i][2][1] \in {"8", "9", "10", "11", "12", "13", "14", "15"})
                THEN result = None
                ELSE /\ IsSome(result)
                     /\ Unwrap(result).name = PERMESSAGE_DEFLATE_NAME

C7_Witness ==
    /\ DeflateOffer
    /\ Params = <<<<PARAM_SERVER_NO_CONTEXT_TAKEOVER, None>>,
                  <<PARAM_CLIENT_MAX_WINDOW_BITS, Some("10")>>>>
    /\ result = Some(WebSocketExtension(PERMESSAGE_DEFLATE_NAME,
                                        <<<<PARAM_SERVER_NO_CONTEXT_TAKEOVER, None>>>>))

\* C8 as stated: DeflateContext::new on a response holding server_max_window_bits
\* fails with ServerMaxWindowBitsNotSupported or InvalidServerMaxWindowBitsValue.
C8_Original ==
    (Verified /\ PARAM_SERVER_MAX_WINDOW_BITS \in Keys(Params))
        => /\ ~result.ok
           /\ result.val.kind \in {"ServerMaxWindowBitsNotSupported",
                                   "InvalidServerMaxWindowBitsValue"}

\* C8 as amended: DeflateContext::new on a response holding server_max_window_bits
\* never succeeds; when the parameters before the first server_max_window_bits are
\* valid, it fails with MissingServerMaxWindowBitsValue (bare),
\* InvalidServerMaxWindowBitsValue carrying the value (malformed) or
\* ServerMaxWindowBitsNotSupported (a value in "8".."15").
C8_ServerMaxWindowBitsFails ==
    \A i \in 1..Len(Params) :
        (/\ Verified
         /\ Params[i][1] = PARAM_SERVER_MAX_WINDOW_BITS
         /\ \A j \in 1..(i - 1) : Params[j][1] # PARAM_SERVER_MAX_WINDOW_BITS)
          => /\ ~result.ok
             /\ OtherwiseValid(i..Len(Params))
                  => result = IF Params[i][2] = None
                              THEN Err("MissingServerMaxWindowBitsValue", None)
                              ELSE IF Params[i][2][1] \in {"8", "9", "10", "11", "12", "13", "14", "15"}
                                   THEN Err("ServerMaxWindowBitsNotSupported", None)
                                   ELSE Err("InvalidServerMaxWindowBitsValue", Params[i][2])

C8_Witness ==
    /\ Verified
    /\ Params = <<<<PARAM_SERVER_NO_CONTEXT_TAKEOVER, None>>,
                  <<PARAM_SERVER_MAX_WINDOW_BITS, Some("10")>>>>
    /\ result = Err("ServerMaxWindowBitsNotSupported", None)

\* C9: DeflateContext::new on a response of context-takeover parameters in which
\* server_no_context_takeover or client_no_context_takeover occurs twice fails
\* with DuplicateParameter naming a repeated parameter, for every local config.
C9_DuplicateParameterFails ==
    (/\ Verified
     /\ Keys(Params) \subseteq ContextTakeoverParams
     /\ \E k \in ContextTakeoverParams : Count(Params, k) >= 2)
      => /\ ~result.ok
         /\ result.val.kind = "DuplicateParameter"
         /\ \E k \in ContextTakeoverParams :
               /\ Count(Params, k) >= 2
               /\ result.val.arg = Some(k)

C9_Witness ==
    /\ Verified
    /\ Params = <<<<PARAM_SERVER_NO_CONTEXT_TAKEOVER, None>>,
                  <<PARAM_CLIENT_NO_CONTEXT_TAKEOVER, None>>,
                  <<PARAM_SERVER_NO_CONTEXT_TAKEOVER, None>>>>
    /\ in_config.accept_no_context_takeover
    /\ result = Err("DuplicateParameter", Some(PARAM_SERVER_NO_CONTEXT_TAKEOVER))

\* C10: DeflateContext::new on a response that is valid but for one unrecognized
\* parameter name fails with UnknownParameter carrying that name, and no response
\* holding an unrecognized name verifies.
C10_UnknownParameterFails ==
    /\ (Verified /\ Keys(Params) \ KnownParams # {}) => ~result.ok
    /\ \A i \in 1..Len(Params) :
          (/\ Verified
           /\ Params[i][1] \notin KnownParams
           /\ OtherwiseValid({i}))
             => result = Err("UnknownParameter", Some(Params[i][1]))

C10_Witness ==
    /\ Verified
    /\ Params = <<<<PARAM_CLIENT_NO_CONTEXT_TAKEOVER, None>>,
                  <<"unknown-parameter", None>>,
                  <<PARAM_SERVER_NO_CONTEXT_TAKEOVER, None>>>>
    /\ result = Err("UnknownParameter", Some("unknown-parameter"))

\* the value strings the spec calls well formed
WellFormedBits == {"8", "9", "10", "11", "12", "13", "14", "15"}
\* what DeflateContext::new answers to a client_max_window_bits carrying val
ClientMaxWindowBitsError(val) ==
    IF IsSome(val) /\ Unwrap(val) \notin WellFormedBits
    THEN Err("InvalidClientMaxWindowBitsValue", val)
    ELSE Err("UnexpectedClientMaxWindowBits", None)

\* C11 as stated: DeflateContext::new on a response holding client_max_window_bits
\* fails with InvalidClientMaxWindowBitsValue(value) when that value is malformed
\* and with UnexpectedClientMaxWindowBits when it is bare or in "8".."15".
C11_Original ==
    \A i \in 1..Len(Params) :
        (/\ Verified
         /\ Params[i][1] = PARAM_CLIENT_MAX_WINDOW_BITS
         /\ \A j \in 1..(i - 1) : Params[j][1] # PARAM_CLIENT_MAX_WINDOW_BITS)
          => result = ClientMaxWindowBitsError(Params[i][2])

\* C11 as amended: DeflateContext::new on a response holding client_max_window_bits
\* never succeeds; when the parameters before the first client_max_window_bits
\* are valid, it fails with InvalidClientMaxWindowBitsValue(value) for a malformed
\* value and with UnexpectedClientMaxWindowBits for a bare one or one in "8".."15".
C11_ClientMaxWindowBitsFails ==
    \A i \in 1..Len(Params) :
        (/\ Verified
         /\ Params[i][1] = PARAM_CLIENT_MAX_WINDOW_BITS
         /\ \A j \in 1..(i - 1) : Params[j][1] # PARAM_CLIENT_MAX_WINDOW_BITS)
          => /\ ~result.ok
             /\ OtherwiseValid(i..Len(Params))
                  => result = ClientMaxWindowBitsError(Params[i][2])

C11_Witness ==
    /\ Verified
    /\ Params = <<<<PARAM_CLIENT_NO_CONTEXT_TAKEOVER, None>>,
                  <<PARAM_CLIENT_MAX_WINDOW_BITS, Some("10")>>,
                  <<PARAM_SERVER_NO_CONTEXT_TAKEOVER, None>>>>
    /\ in_config.accept_no_context_takeover
    /\ result = Err("UnexpectedClientMaxWindowBits", None)

\* the validator was applied to the value of the only parameter of in_ext
Validated == op = "is_valid_max_window_bits"
\* in_ext holds one window-bits parameter, and it carries a value
OneBitsParam(key) ==
    /\ Len(Params) = 1
    /\ Params[1][1] = key
    /\ IsSome(Params[1][2])
Bits == Params[1][2][1]

\* C12: is_valid_max_window_bits is true exactly for "8", "9", .., "15" and false
\* for every other string ("", "0", "08", "+8", "-8", "16" among them), and
\* accept_offer and DeflateContext::new judge a value as this validator does.
C12_ValidatorAcceptsEightToFifteen ==
    /\ Validated => (result = (Bits \in WellFormedBits))
    /\ (Validated /\ Bits \in {"", "0", "08", "+8", "-8", "16"}) => result = FALSE
    /\ (DeflateOffer /\ OneBitsParam(PARAM_CLIENT_MAX_WINDOW_BITS))
          => (IsSome(result) <=> Bits \in WellFormedBits)
    /\ (Verified /\ OneBitsParam(PARAM_CLIENT_MAX_WINDOW_BITS))
          => (result.val.kind = "InvalidClientMaxWindowBitsValue"
                <=> Bits \notin WellFormedBits)
    /\ (Verified /\ OneBitsParam(PARAM_SERVER_MAX_WINDOW_BITS))
          => (result.val.kind = "InvalidServerMaxWindowBitsValue"
                <=> Bits \notin WellFormedBits)

C12_Witness ==
    /\ Validated
    /\ Bits = "08"
    /\ result = FALSE

(***************************************************************************)
(* Claims about a whole handshake (checked under SpecHandshake).           *)
(***************************************************************************)
\* the server has answered the offer / the client has resolved the response
Answered == hs.stage \in {"responded", "declined", "verified"}
Resolved == hs.stage = "verified"
ResolvedConfig == Unwrap(hs.resolved).val.config
BareServerNoContextTakeover == <<PARAM_SERVER_NO_CONTEXT_TAKEOVER, None>>

\* C13 as stated: an offer without parameters is answered with a response
\* without parameters, and the offering client resolves it to a config with
\* both context-takeover flags false.
C13_Original ==
    (Resolved /\ hs.offer.params = <<>>)
        => /\ Unwrap(hs.resolved).ok
           /\ ~ResolvedConfig.request_no_context_takeover
           /\ ~ResolvedConfig.accept_no_context_takeover

\* C13 amended: an offer without parameters is answered with a permessage-deflate
\* response without parameters, and the offering client resolves it to a config
\* whose request_no_context_takeover is false and whose
\* accept_no_context_takeover is the client's own setting.
C13_EmptyOfferScenario ==
    /\ (Answered /\ hs.offer.params = <<>>)
          => hs.response = Some(WebSocketExtension(PERMESSAGE_DEFLATE_NAME, <<>>))
    /\ (Resolved /\ hs.offer.params = <<>>)
          => /\ Unwrap(hs.resolved).ok
             /\ ~ResolvedConfig.request_no_context_takeover
             /\ ResolvedConfig.accept_no_context_takeover
                    = hs.client.accept_no_context_takeover

C13_Witness ==
    /\ Resolved
    /\ hs.offer.params = <<>>
    /\ hs.client = DeflateConfig_default
    /\ Unwrap(hs.resolved) = Ok(DeflateContext_from(DeflateConfig_default))

\* C14: an offer that is the bare server_no_context_takeover is answered with a
\* response holding exactly that one bare parameter; whenever an accepted offer
\* contains the parameter the response holds it once, bare; and the client
\* resolves the response to a config with request_no_context_takeover true.
C14_ServerNoContextTakeoverScenario ==
    /\ (Answered /\ hs.offer.params = <<BareServerNoContextTakeover>>)
          => hs.response = Some(WebSocketExtension(PERMESSAGE_DEFLATE_NAME,
                                    <<BareServerNoContextTakeover>>))
    /\ (Answered /\ IsSome(hs.response)
          /\ PARAM_SERVER_NO_CONTEXT_TAKEOVER \in Keys(hs.offer.params))
          => /\ Count(Unwrap(hs.response).params, PARAM_SERVER_NO_CONTEXT_TAKEOVER) = 1
             /\ \A i \in 1..Len(Unwrap(hs.response).params) :
                   Unwrap(hs.response).params[i][1] = PARAM_SERVER_NO_CONTEXT_TAKEOVER
                       => Unwrap(hs.response).params[i] = BareServerNoContextTakeover
    /\ (Resolved /\ PARAM_SERVER_NO_CONTEXT_TAKEOVER \in Keys(hs.offer.params))
          => /\ Unwrap(hs.resolved).ok
             /\ ResolvedConfig.request_no_context_takeover

C14_Witness ==
    /\ Resolved
    /\ hs.offer.params = <<BareServerNoContextTakeover>>
    /\ Unwrap(hs.response).params = <<BareServerNoContextTakeover>>
    /\ Unwrap(hs.resolved).ok
    /\ ResolvedConfig.request_no_context_takeover

(***************************************************************************)
(* Claims about DeflateContext::new and the context-takeover flags         *)
(* (checked under SpecNegotiation).                                        *)
(***************************************************************************)
\* C15 as stated: for every local config a response without parameters resolves
\* to a config with request_no_context_takeover and accept_no_context_takeover
\* both false.
C15_Original ==
    (Verified /\ Params = <<>>)
        => /\ result.ok
           /\ ~result.val.config.request_no_context_takeover
           /\ ~result.val.config.accept_no_context_takeover

\* C15 amended: for every local config a response without parameters resolves
\* to a context whose config has request_no_context_takeover false and the
\* accept_no_context_takeover of the local config (and the default compression).
C15_EmptyResponseResolves ==
    (Verified /\ Params = <<>>)
        => result = Ok(DeflateContext_from(
                          DeflateConfig(DeflateConfig_default.compression, FALSE,
                                        in_config.accept_no_context_takeover)))

C15_Witness ==
    /\ Verified
    /\ Params = <<>>
    /\ in_config = DeflateConfig(0, TRUE, TRUE)
    /\ result.ok
    /\ result.val.config = DeflateConfig(6, FALSE, TRUE)

\* C17: a client whose config has accept_no_context_takeover = false and a
\* response containing client_no_context_takeover: DeflateContext::new returns
\* an error, not a context.
C17_ClientNoContextTakeoverRefused ==
    (Verified /\ ~in_config.accept_no_context_takeover
        /\ PARAM_CLIENT_NO_CONTEXT_TAKEOVER \in Keys(Params))
        => ~result.ok

(***************************************************************************)
(* Claims about the offers and the methods of Extensions (checked under    *)
(* SpecExtensions).                                                        *)
(***************************************************************************)
OfferBuilt == ext.op \in {"from", "create_offers"} /\ IsSome(ext.deflate)
NegotiateCalled == ext.op = "negotiate_offers"
VerifiedExtensions == ext.op = "verify_extensions"
\* the extensions given to the method, and the permessage-deflate ones among them
Given == ext.arg
GivenDeflate == DeflateOffers(ext.arg)

\* C16: the offer built from a config is named permessage-deflate, holds the
\* bare server_no_context_takeover exactly when request_no_context_takeover is
\* set, and never holds client_no_context_takeover.
C16_OfferFromConfig ==
    OfferBuilt =>
        /\ Len(ext.result) = 1
        /\ ext.result[1].name = PERMESSAGE_DEFLATE_NAME
        /\ (Count(ext.result[1].params, PARAM_SERVER_NO_CONTEXT_TAKEOVER) = 1
              <=> Unwrap(ext.deflate).request_no_context_takeover)
        /\ \A i \in 1..Len(ext.result[1].params) :
              ext.result[1].params[i][1] = PARAM_SERVER_NO_CONTEXT_TAKEOVER
                  => ext.result[1].params[i][2] = None
        /\ PARAM_CLIENT_NO_CONTEXT_TAKEOVER \notin Keys(ext.result[1].params)

\* negotiate_offers declined: Ok, nothing accepted, no context
Declined == ext.result = Negotiated(<<>>, ResolvedExtensions_default)
\* the offer negotiate_offers looks at: the first one named permessage-deflate
FirstDeflateOffer == Given[FindDeflateOffer(Given)]
\* negotiate_offers of an endpoint with permessage-deflate was given an offer of it
DeflateNegotiated == NegotiateCalled /\ IsSome(ext.deflate) /\ GivenDeflate # {}
\* parameters that DeflateContext::new resolves: context-takeover parameters,
\* each at most once
ValidResponse(params) ==
    /\ Keys(params) \subseteq ContextTakeoverParams
    /\ \A k \in ContextTakeoverParams : Count(params, k) <= 1
ExtensionConflict ==
    Err("ExtensionConflict", Some(PERMESSAGE_DEFLATE_NAME))
\* what negotiate_offers accepted is at most one permessage-deflate entry, with
\* a context exactly when there is one
AtMostOneAccepted ==
    (NegotiateCalled /\ ext.result.ok) =>
        /\ Len(ext.result.val.accepted_offers) <= 1
        /\ \A i \in 1..Len(ext.result.val.accepted_offers) :
              ext.result.val.accepted_offers[i].name = PERMESSAGE_DEFLATE_NAME
        /\ IsSome(ext.result.val.resolved_extensions.deflate)
              <=> Len(ext.result.val.accepted_offers) = 1

\* C18 as stated: negotiate_offers accepts at most one permessage-deflate entry
\* and makes at most one context, and verify_extensions given two or more
\* agreed permessage-deflate entries returns ExtensionConflict.
C18_Original ==
    /\ AtMostOneAccepted
    /\ (VerifiedExtensions /\ Cardinality(GivenDeflate) >= 2)
          => ext.result = ExtensionConflict

\* C18 amended: negotiate_offers accepts at most one permessage-deflate entry
\* and makes at most one context; verify_extensions given two or more agreed
\* permessage-deflate entries never returns a resolved context, and returns
\* ExtensionConflict when deflate is configured and the first two agreed
\* entries are permessage-deflate entries of which the first one verifies.
C18_AtMostOneDeflate ==
    /\ AtMostOneAccepted
    /\ (VerifiedExtensions /\ Cardinality(GivenDeflate) >= 2)
          => /\ ~ext.result.ok
             /\ (/\ IsSome(ext.deflate)
                 /\ {1, 2} \subseteq GivenDeflate
                 /\ ValidResponse(Given[1].params))
                   => ext.result = ExtensionConflict

C18_Witness ==
    /\ VerifiedExtensions
    /\ IsSome(ext.deflate)
    /\ Given = <<WebSocketExtension(PERMESSAGE_DEFLATE_NAME,
                     <<<<PARAM_SERVER_NO_CONTEXT_TAKEOVER, None>>>>),
                 WebSocketExtension(PERMESSAGE_DEFLATE_NAME, <<>>)>>
    /\ ext.result = ExtensionConflict

\* the agreed entries of another name than permessage-deflate, and the first
Foreign == (1..Len(Given)) \ GivenDeflate
FirstForeign == CHOOSE i \in Foreign : \A j \in Foreign : i <= j
InvalidExtension(name) == Err("InvalidExtension", Some(name))
\* the result is an InvalidExtension error
IsInvalidExtension == ~ext.result.ok /\ ext.result.val.kind = "InvalidExtension"
\* verify_extensions without a deflate config, and given an empty list
NothingOffered ==
    /\ (ext.deflate = None /\ Given # <<>>) => ext.result = InvalidExtension(Given[1].name)
    /\ Given = <<>> => ext.result = Ok(None)
\* every entry before the first of another name passes: there is none, or one
\* permessage-deflate entry that resolves
ForeignIsReached ==
    \/ FirstForeign = 1
    \/ /\ FirstForeign = 2
       /\ new_from_extension_params(Unwrap(ext.deflate), Given[1].params).ok

\* C28 as stated: verify_extensions returns InvalidExtension when deflate is
\* not configured and the agreed list is not empty, and when deflate is
\* configured and an agreed entry has another name; it returns Ok(None) for
\* the empty list.
C28_Original ==
    VerifiedExtensions =>
        /\ NothingOffered
        /\ (IsSome(ext.deflate) /\ Foreign # {}) => IsInvalidExtension

\* C28 amended: with deflate configured and an agreed entry of another name
\* verify_extensions returns an error, which is InvalidExtension naming the
\* first such entry when every entry before it passes; the rest as stated.
C28_OnlyWhatWasOffered ==
    VerifiedExtensions =>
        /\ NothingOffered
        /\ (IsSome(ext.deflate) /\ Foreign # {})
              => /\ ~ext.result.ok
                 /\ ForeignIsReached
                       => ext.result = InvalidExtension(Given[FirstForeign].name)

C28_Witness ==
    /\ VerifiedExtensions
    /\ IsSome(ext.deflate)
    /\ Given = <<WebSocketExtension(PERMESSAGE_DEFLATE_NAME, <<>>),
                 WebSocketExtension("custom-extension", <<>>)>>
    /\ ext.result = InvalidExtension("custom-extension")

\* C19: negotiate_offers declines a permessage-deflate offer that holds a
\* parameter of an unrecognized name: nothing is accepted and no context is
\* resolved.
C19_UnknownParameterDeclined ==
    (DeflateNegotiated /\ Keys(FirstDeflateOffer.params) \ KnownParams # {})
        => Declined

\* a parameter name twice, a window-bits value that is not "8".."15", or
\* server_max_window_bits
Malformed(params) ==
    \/ \E k \in Keys(params) : Count(params, k) >= 2
    \/ \E i \in 1..Len(params) :
          /\ params[i][1] \in WindowBitsParams
          /\ IsSome(params[i][2])
          /\ Unwrap(params[i][2]) \notin WellFormedBits
    \/ PARAM_SERVER_MAX_WINDOW_BITS \in Keys(params)

\* C20: negotiate_offers given a malformed or unsupported permessage-deflate
\* offer declines: it returns Ok with nothing accepted and no context, never Err.
C20_MalformedOfferDeclined ==
    (DeflateNegotiated /\ Malformed(FirstDeflateOffer.params)) => Declined

(***************************************************************************)
(* Claims about the header tokenizer (checked under SpecExtensions).       *)
(***************************************************************************)
Tokenized == ext.op = "from_header"
Occurrences(str, c) == Cardinality({i \in 1..Len(str) : str[i] = c})
\* the header is one extension with one parameter, and the text of it
OneParameter ==
    /\ Tokenized
    /\ Occurrences(ext.arg, ",") = 0
    /\ Occurrences(ext.arg, ";") = 1
ParameterText == SubSeq(ext.arg, Find(ext.arg, ";") + 1, Len(ext.arg))
WithoutSpaces(str) == SelectSeq(str, LAMBDA c : c # " ")

\* C21: a parameter text is split on its first '=' only: the key is what stands
\* before it and the value is the whole remainder, further '=' included.
C21_SplitOnFirstEquals ==
    (OneParameter /\ Contains(ParameterText, "="))
        => /\ Len(ext.result) = 1
           /\ Len(ext.result[1].params) = 1
           /\ ext.result[1].params[1][1]
                 = Trim(SubSeq(ParameterText, 1, Find(ParameterText, "=") - 1))
           /\ ext.result[1].params[1][2]
                 = Some(Trim(SubSeq(ParameterText, Find(ParameterText, "=") + 1,
                                    Len(ParameterText))))

(***************************************************************************)
(* Claims about a connection (checked under SpecConnection).               *)
(***************************************************************************)
\* the receiver has decompressed the message as one final fragment
Received == conn.stage = "received"

\* C22: whenever the receiving endpoint resets its decompressor after a final
\* fragment, the sending endpoint reset its compressor after that message.
C22_ResetsAgree ==
    (Received /\ conn.decompressor_reset) => conn.compressor_reset

(***************************************************************************)
(* Claims about the resets and the two streams of one context (checked     *)
(* under Spec).                                                            *)
(***************************************************************************)
CompressorIsReset == ctx'.compressor = Compress_new(ctx.compressor.level)
\* the compressor went on from where it was: its count of input bytes grew by
\* the payload
CompressorWentOn ==
    ctx'.compressor.total_in = ctx.compressor.total_in + Len(sent')
DecompressorIsReset == ctx'.decompressor = Decompress_new
\* bytes the decompressor took in during the step
TakenIn == ctx'.decompressor.total_in - ctx.decompressor.total_in
\* compress returned / never returned
CompressReturned == Compress /\ pc' = "compressed"

\* what C23 says of compress and of a non-final fragment
ResetGating ==
    /\ CompressReturned
          => IF ctx.config.accept_no_context_takeover
             THEN CompressorIsReset
             ELSE CompressorWentOn
    /\ DecompressFragment
          => /\ ~DecompressorIsReset
             /\ TakenIn <= rcvd' - rcvd

\* C23 as stated: compress resets the compressor exactly when
\* accept_no_context_takeover is set; decompress resets the decompressor
\* exactly when is_final and request_no_context_takeover is set; a non-final
\* fragment never resets it and never has the trailer appended.
C23_Original ==
    [][/\ ResetGating
       /\ DecompressFinal
             => (DecompressorIsReset <=> ctx.config.request_no_context_takeover)]_vars

\* C23 amended: as stated for compress and for non-final fragments; a
\* decompress of a final fragment that returns Ok resets the decompressor
\* exactly when request_no_context_takeover is set, and one that returns an
\* error does not reset it.
C23_ResetGating ==
    [][/\ ResetGating
       /\ (DecompressFinal /\ pc' = "delivered")
             => (DecompressorIsReset <=> ctx.config.request_no_context_takeover)
       /\ (DecompressFinal /\ pc' = "error") => ~DecompressorIsReset]_vars

C23_Witness ==
    /\ pc = "delivered"
    /\ nfrags > 0
    /\ ctx.config.request_no_context_takeover
    /\ ~ctx.config.accept_no_context_takeover
    /\ ctx.decompressor = Decompress_new
    /\ ctx.compressor.total_in = Len(sent)
    /\ sent # <<>>

\* the step is a call of decompress
DecompressCalled == DecompressFragment \/ DecompressFinal
\* the context with a compressor that has seen nothing, and the bytes handed
\* to decompress in the step
OtherCompressor == [ctx EXCEPT !.compressor = Compress_new(ctx.compressor.level)]
Handed == SubSeq(wire, rcvd + 1, rcvd')
\* the bytes decompress returned in the step
Returned == SubSeq(got', Len(got) + 1, Len(got'))
\* compress gives r when the decompressor is another one
SameCompress(r) ==
    /\ r.self.compressor = ctx'.compressor
    /\ r.result.val = wire'
\* decompress gives r when the compressor is another one
SameDecompress(r) ==
    /\ r.self.decompressor = ctx'.decompressor
    /\ r.result.ok = (pc' # "error")
    /\ r.result.ok => r.result.val = Returned

\* C26: compress leaves the decompressor and the config as they are and
\* returns what it returns with any other decompressor; decompress leaves the
\* compressor and the config as they are and returns what it returns with any
\* other compressor: calls of one kind do not see the calls of the other.
C26_StreamsIndependent ==
    [][/\ Compress
             => /\ ctx'.decompressor = ctx.decompressor
                /\ ctx'.config = ctx.config
                /\ SameCompress(compress(backend,
                                         [ctx EXCEPT !.decompressor = Decompress_new],
                                         sent'))
       /\ DecompressCalled
             => /\ ctx'.compressor = ctx.compressor
                /\ ctx'.config = ctx.config
       /\ DecompressFragment
             => SameDecompress(decompress(OtherCompressor, Handed, FALSE))
       /\ DecompressFinal
             => SameDecompress(decompress(OtherCompressor, Handed, TRUE))]_vars

C26_Witness ==
    /\ pc = "compressed"
    /\ nmsgs = 2
    /\ ctx.decompressor = dec0
    /\ dec0.total_in > 0
    /\ ctx.compressor.total_in > Len(sent)

(***************************************************************************)
(* Claims about the response of accept_offer and the context made from it  *)
(* (checked under SpecNegotiation).                                        *)
(***************************************************************************)
\* accept_offer returned a response, and its parameters
Responded == Accepted /\ IsSome(result)
ResponseParams == Unwrap(result).params

C30_CompressionKept ==
    (Verified /\ result.ok) =>
        /\ result.val.config.compression = in_config.compression
        /\ result.val.compressor = Compress_new(in_config.compression)

\* the stream and the output when compress leaves its feed loop in the step
Fed ==
    CompressFeed(backend, ctx.compressor, sent', ctx.compressor.total_in,
                 Vec_with_capacity(Len(sent')))
\* compress left its feed loop with all of the payload consumed
AllConsumed == Fed.z.total_in - ctx.compressor.total_in = Len(sent')

\* C27: every call of compress and of decompress runs to completion: compress
\* leaves its feed loop with all input bytes consumed and its sync-flush loop
\* ends, so that the call returns; decompress returns bytes or an error.
C27_CallsRunToCompletion ==
    [][/\ Compress => (AllConsumed /\ pc' = "compressed")
       /\ DecompressFragment => pc' \in {"partial", "error"}
       /\ DecompressFinal => pc' \in {"delivered", "error"}]_vars

\* what compress returns for the payload of the step on a context just made
\* from a config of the same level
FromFresh(request, accept) ==
    compress(backend,
             DeflateContext_from(DeflateConfig(ctx.config.compression, request, accept)),
             sent').result.val

\* C32: with accept_no_context_takeover set the compressor is in its initial
\* state after every compress that returns, and the bytes returned are those a
\* new context of the same level returns for the payload, whatever was
\* compressed before; with request_no_context_takeover set the decompressor
\* is in its initial state after every final fragment that decompresses.
C32_NoContextTakeover ==
    [][/\ (CompressReturned /\ ctx.config.accept_no_context_takeover)
             => /\ ctx'.compressor = Compress_new(ctx.config.compression)
                /\ \A r \in BOOLEAN, a \in BOOLEAN : wire' = FromFresh(r, a)
       /\ (DecompressFinal /\ pc' = "delivered"
              /\ ctx.config.request_no_context_takeover)
             => ctx'.decompressor = Decompress_new]_vars

C32_Witness ==
    /\ pc = "compressed"
    /\ nmsgs = 2
    /\ sent # <<>>
    /\ ctx.config.accept_no_context_takeover
    /\ ctx.config.request_no_context_takeover
    /\ ctx.compressor = Compress_new(ctx.config.compression)
    /\ ctx.decompressor = Decompress_new

\* C24: repeated round trips on one context.  For every config and every
\* sequence of payloads, each compress returns, and giving its output to
\* decompress(.., is_final = true) of the same context returns the payload, for
\* the first message and for every later one.
C24_RepeatedRoundTrips ==
    /\ pc # "hung"
    /\ (Finished /\ nfrags = 0) => (pc = "delivered" /\ got = sent)

(***************************************************************************)
(* Claims about the order of evaluation in DeflateContext::new (checked    *)
(* under SpecNegotiation).                                                 *)
(***************************************************************************)
\* parameter i of the response violates a rule: it is not a context-takeover
\* parameter, or its name stood in the response before
Offending(i) ==
    \/ Params[i][1] \notin ContextTakeoverParams
    \/ \E j \in 1..(i - 1) : Params[j][1] = Params[i][1]
Offenders == {i \in 1..Len(Params) : Offending(i)}
EarliestOffender == CHOOSE i \in Offenders : \A j \in Offenders : i <= j
\* the error that the rule violated by parameter i gives
ErrorOf(i) ==
    CASE Params[i][1] \in ContextTakeoverParams ->
             Err("DuplicateParameter", Some(Params[i][1]))
      [] Params[i][1] = PARAM_SERVER_MAX_WINDOW_BITS ->
             IF ~IsSome(Params[i][2])
             THEN Err("MissingServerMaxWindowBitsValue", None)
             ELSE IF Unwrap(Params[i][2]) \in WellFormedBits
             THEN Err("ServerMaxWindowBitsNotSupported", None)
             ELSE Err("InvalidServerMaxWindowBitsValue", Params[i][2])
      [] Params[i][1] = PARAM_CLIENT_MAX_WINDOW_BITS ->
             ClientMaxWindowBitsError(Params[i][2])
      [] OTHER -> Err("UnknownParameter", Some(Params[i][1]))

\* C25: the parameters are evaluated in order and the first violation ends the
\* evaluation: the error is the one of the earliest offending parameter, whatever
\* follows it, and a response without an offending parameter verifies.
C25_EarliestOffenderDecides ==
    Verified =>
        IF Offenders = {}
        THEN result.ok
        ELSE result = ErrorOf(EarliestOffender)

C25_Witness ==
    /\ Verified
    /\ Params = <<<<PARAM_SERVER_NO_CONTEXT_TAKEOVER, None>>,
                  <<PARAM_CLIENT_MAX_WINDOW_BITS, Some("16")>>,
                  <<"unknown_parameter", None>>>>
    /\ result = Err("InvalidClientMaxWindowBitsValue", Some("16"))

(***************************************************************************)
(* What the answer of the responder depends on (checked under              *)
(* SpecHandshake).                                                         *)
(***************************************************************************)
\* C31: accept_offer returns for the offer what it returns for the same offer
\* with any other local config, None or the same response, and the call leaves
\* the config of the responder as it was.
C31_AnswerDependsOnOfferOnly ==
    [][HsAccept
         => /\ hs'.server = hs.server
            /\ \A c \in Configs : accept_offer(c, hs.offer) = hs'.response]_vars

C31_Witness ==
    /\ hs.stage = "responded"
    /\ hs.server = DeflateConfig(0, TRUE, TRUE)
    /\ hs.client = DeflateConfig_default
    /\ hs.offer.params = <<<<PARAM_CLIENT_NO_CONTEXT_TAKEOVER, None>>>>
    /\ Unwrap(hs.response).params = <<<<PARAM_CLIENT_NO_CONTEXT_TAKEOVER, None>>>>

====
